---- MODULE Spec2Model ----
(***************************************************************************)
(* A model of tcanvas: the Texel cell, the canvas buffer with its named    *)
(* transformations (tcanvas.py) and the 2D geometry mixin (geometry.py).   *)
(*                                                                         *)
(* Coordinates are Python floats.  The geometry code divides by the step   *)
(* count and accumulates the quotient, so the rounding of IEEE-754 binary64*)
(* arithmetic decides which cell a point lands in.  The arithmetic is      *)
(* therefore modelled bit-exactly: a float is a sign, a 53 bit mantissa    *)
(* (held in 15 bit limbs, to stay within 32 bit integers) and an           *)
(* exponent; +, - and / round to nearest, ties to even.                    *)
(***************************************************************************)
EXTENDS Integers, Sequences, FiniteSets, TLC

(***************************************************************************)
(* Natural numbers of any size: little-endian sequences of 15 bit limbs,   *)
(* without leading zero limbs.                                             *)
(***************************************************************************)
Base == 2^15

Min(a, b) == IF a <= b THEN a ELSE b
Max(a, b) == IF a >= b THEN a ELSE b
Abs(a) == IF a < 0 THEN -a ELSE a

RECURSIVE BNorm(_)
BNorm(x) ==
  IF x = << >> THEN << >>
  ELSE IF x[Len(x)] = 0 THEN BNorm(SubSeq(x, 1, Len(x) - 1)) ELSE x

RECURSIVE BFromNat(_)
BFromNat(n) == IF n = 0 THEN << >> ELSE <<n % Base>> \o BFromNat(n \div Base)

RECURSIVE BToNat(_)
BToNat(x) == IF x = << >> THEN 0 ELSE x[1] + Base * BToNat(Tail(x))

BLimb(x, i) == IF i <= Len(x) THEN x[i] ELSE 0

RECURSIVE BAddFrom(_, _, _, _)
BAddFrom(x, y, i, c) ==
  IF i > Len(x) /\ i > Len(y)
  THEN (IF c = 0 THEN << >> ELSE <<c>>)
  ELSE <<(BLimb(x, i) + BLimb(y, i) + c) % Base>>
       \o BAddFrom(x, y, i + 1, (BLimb(x, i) + BLimb(y, i) + c) \div Base)

BAdd(x, y) == BAddFrom(x, y, 1, 0)

\* x - y for x >= y
RECURSIVE BSubFrom(_, _, _, _)
BSubFrom(x, y, i, b) ==
  IF i > Len(x) THEN << >>
  ELSE IF BLimb(x, i) - BLimb(y, i) - b < 0
       THEN <<BLimb(x, i) - BLimb(y, i) - b + Base>> \o BSubFrom(x, y, i + 1, 1)
       ELSE <<BLimb(x, i) - BLimb(y, i) - b>> \o BSubFrom(x, y, i + 1, 0)

BSub(x, y) == BNorm(BSubFrom(x, y, 1, 0))

RECURSIVE BCmpFrom(_, _, _)
BCmpFrom(x, y, i) ==
  IF i = 0 THEN 0
  ELSE IF x[i] > y[i] THEN 1
  ELSE IF x[i] < y[i] THEN -1
  ELSE BCmpFrom(x, y, i - 1)

\* -1, 0, 1 as x <, =, > y
BCmp(x, y) ==
  IF Len(x) > Len(y) THEN 1
  ELSE IF Len(x) < Len(y) THEN -1
  ELSE BCmpFrom(x, y, Len(x))

\* x * k for 0 < k <= Base
RECURSIVE BMulFrom(_, _, _, _)
BMulFrom(x, k, i, c) ==
  IF i > Len(x)
  THEN (IF c = 0 THEN << >> ELSE <<c>>)
  ELSE <<(x[i] * k + c) % Base>> \o BMulFrom(x, k, i + 1, (x[i] * k + c) \div Base)

BMulSmall(x, k) == BMulFrom(x, k, 1, 0)

\* quotient and remainder of x by k, 0 < k <= Base: long division from the
\* top limb i down, r the remainder so far and q the limbs found
RECURSIVE BDivFrom(_, _, _, _, _)
BDivFrom(x, k, i, r, q) ==
  IF i = 0 THEN [q |-> BNorm(q), r |-> r]
  ELSE BDivFrom(x, k, i - 1, (r * Base + x[i]) % k, <<(r * Base + x[i]) \div k>> \o q)

BDivSmall(x, k) == BDivFrom(x, k, Len(x), 0, << >>)

BShl(x, n) ==
  IF x = << >> THEN << >>
  ELSE [i \in 1..(n \div 15) |-> 0] \o BMulSmall(x, 2^(n % 15))

BShr(x, n) ==
  IF n \div 15 >= Len(x) THEN << >>
  ELSE BDivSmall(SubSeq(x, (n \div 15) + 1, Len(x)), 2^(n % 15)).q

RECURSIVE NatBitLen(_)
NatBitLen(n) == IF n = 0 THEN 0 ELSE 1 + NatBitLen(n \div 2)

BitLen(x) == IF x = << >> THEN 0 ELSE 15 * (Len(x) - 1) + NatBitLen(x[Len(x)])

(***************************************************************************)
(* Python floats (IEEE-754 binary64, round to nearest, ties to even).      *)
(* [s, m, e] is (-1)^s * m * 2^e; m is zero or has exactly 53 bits.        *)
(***************************************************************************)
FZero == [s |-> 0, m |-> << >>, e |-> 0]

\* FRoundTo53(s, M, e, sticky) is the float nearest to
\* (-1)^s * (M + fraction) * 2^e, where sticky says the fraction (in [0, 1))
\* is not zero; a sticky M has more than 53 bits.  Ties go to the even
\* mantissa.  c compares the bits dropped from M with one half.
RoundUp(q, c, sticky) == c = 1 \/ (c = 0 /\ (sticky \/ q[1] % 2 = 1))

Renorm(s, q, e) ==
  IF BitLen(q) = 54 THEN [s |-> s, m |-> BShr(q, 1), e |-> e + 1]
  ELSE [s |-> s, m |-> q, e |-> e]

RoundDrop(s, M, e, sticky, d, q) ==
  Renorm(s,
         IF RoundUp(q, BCmp(BSub(M, BShl(q, d)), BShl(<<1>>, d - 1)), sticky)
         THEN BAdd(q, <<1>>) ELSE q,
         e + d)

RoundBits(s, M, e, sticky, bl) ==
  IF bl <= 53 THEN [s |-> s, m |-> BShl(M, 53 - bl), e |-> e - (53 - bl)]
  ELSE RoundDrop(s, M, e, sticky, bl - 53, BShr(M, bl - 53))

FRoundTo53(s, M, e, sticky) ==
  IF M = << >> THEN FZero ELSE RoundBits(s, M, e, sticky, BitLen(M))

\* float(n) for an int n
FFromInt(n) == FRoundTo53(IF n < 0 THEN 1 ELSE 0, BFromNat(Abs(n)), 0, FALSE)

\* the float h / 2^k, exactly
FDyadic(h, k) == FRoundTo53(IF h < 0 THEN 1 ELSE 0, BFromNat(Abs(h)), -k, FALSE)

FNeg(a) == IF a.m = << >> THEN a ELSE [a EXCEPT !.s = 1 - a.s]

\* a + b: the mantissas A and B aligned at exponent e, c comparing them
FAddCmp(sa, A, sb, B, e, c) ==
  FRoundTo53(IF sa = sb \/ c = 1 THEN sa ELSE sb,
             IF sa = sb THEN BAdd(A, B)
             ELSE IF c = 1 THEN BSub(A, B)
             ELSE IF c = -1 THEN BSub(B, A)
             ELSE << >>,
             e, FALSE)

FAddAligned(sa, A, sb, B, e) == FAddCmp(sa, A, sb, B, e, BCmp(A, B))

FAddAt(a, b, e) ==
  FAddAligned(a.s, BShl(a.m, a.e - e), b.s, BShl(b.m, b.e - e), e)

FAdd(a, b) ==
  IF a.m = << >> THEN b
  ELSE IF b.m = << >> THEN a
  ELSE FAddAt(a, b, Min(a.e, b.e))

\* a - b
FSub(a, b) == FAdd(a, FNeg(b))

\* a / n for an int n > 0
FDivQ(a, d) == FRoundTo53(a.s, d.q, a.e - 30, d.r # 0)

FDivInt(a, n) == FDivQ(a, BDivSmall(BShl(a.m, 30), n))

\* round(a): the nearest int, ties to even (|a| < 2^30); q is the integer
\* part of |a|, n its value and c compares the fraction with one half
FRoundCmp(s, n, c) ==
  (IF s = 1 THEN -1 ELSE 1) * (IF c = 1 \/ (c = 0 /\ n % 2 = 1) THEN n + 1 ELSE n)

FRoundQ(a, d, q) ==
  FRoundCmp(a.s, BToNat(q), BCmp(BSub(a.m, BShl(q, d)), BShl(<<1>>, d - 1)))

FRound(a) ==
  IF a.m = << >> THEN 0
  ELSE IF a.e >= 0 THEN (IF a.s = 1 THEN -1 ELSE 1) * BToNat(BShl(a.m, a.e))
  ELSE FRoundQ(a, -a.e, BShr(a.m, -a.e))

(***************************************************************************)
(* The canvas.  cls is the class constructed; buffer is the list of rows   *)
(* of Texels that clear builds and set writes; last records the most       *)
(* recent call (its arguments, the error it raised, the set calls it made) *)
(* and pre the buffer that call started from.                              *)
(***************************************************************************)
VARIABLES cls, columns, rows, buffer, transformations, default_transformation,
          last, pre, nops

vars == <<cls, columns, rows, buffer, transformations, default_transformation,
          last, pre, nops>>

(***************************************************************************)
(* Texel                                                                   *)
(***************************************************************************)
Attrs == {"character", "fg_color", "bg_color", "bold", "faint", "italic",
          "underline", "cross", "blink", "inverse", "overline"}

\* colour values: a string, or a tuple whose components are ints or floats
\* (a float component is n / 2^k)
Sym(c) == [kind |-> "str", code |-> c, rgb |-> << >>]
Tup(t) == [kind |-> "tuple", code |-> "", rgb |-> t]
CInt(n) == [isfloat |-> FALSE, n |-> n, k |-> 0]
CFloat(n, k) == [isfloat |-> TRUE, n |-> n, k |-> k]

TexelDefaults ==
  [character |-> "", fg_color |-> Sym("0"), bg_color |-> Sym("0"),
   bold |-> FALSE, faint |-> FALSE, italic |-> FALSE, underline |-> FALSE,
   cross |-> FALSE, blink |-> FALSE, inverse |-> FALSE, overline |-> FALSE]

\* Texel(**kw)
Texel(kw) == [a \in Attrs |-> IF a \in DOMAIN kw THEN kw[a] ELSE TexelDefaults[a]]

\* strings are sequences of characters; "%d" % n
RECURSIVE Digits(_)
Digits(n) ==
  IF n < 10 THEN <<ToString(n)>> ELSE Digits(n \div 10) \o <<ToString(n % 10)>>

FmtD(n) == IF n < 0 THEN <<"-">> \o Digits(-n) ELSE Digits(n)

subs ==
  ("k" :> 30) @@ ("r" :> 31) @@ ("g" :> 32) @@ ("y" :> 33) @@ ("b" :> 34)
  @@ ("m" :> 35) @@ ("c" :> 36) @@ ("w" :> 37) @@ ("0" :> 39)
  @@ ("K" :> 90) @@ ("R" :> 91) @@ ("G" :> 92) @@ ("Y" :> 93) @@ ("B" :> 94)
  @@ ("M" :> 95) @@ ("C" :> 96) @@ ("W" :> 97)

\* int(x) of a component: truncation towards zero
Trunc(c) ==
  IF c.n >= 0 THEN c.n \div (2^c.k) ELSE -((-c.n) \div (2^c.k))

\* int(x * 255): the product of a small dyadic with 255 is exact
Times255(c) == [isfloat |-> FALSE, n |-> Trunc([c EXCEPT !.n = c.n * 255]), k |-> 0]

Ok(out) == [err |-> "none", out |-> out]
Raise(e) == [err |-> e, out |-> << >>]

\* "38;2;%d;%d;%d;" % color (48 for the background)
FmtRgb(col, bg) ==
  IF Len(col) # 3 THEN Raise("TypeError")
  ELSE Ok((IF bg THEN <<"4">> ELSE <<"3">>) \o <<"8", ";", "2", ";">>
          \o FmtD(Trunc(col[1])) \o <<";">>
          \o FmtD(Trunc(col[2])) \o <<";">>
          \o FmtD(Trunc(col[3])) \o <<";">>)

ansi_color_code(color, bg) ==
  IF color.kind = "str" /\ color.code \in DOMAIN subs
  THEN Ok(FmtD(subs[color.code] + (IF bg THEN 10 ELSE 0)) \o <<";">>)
  ELSE IF color.kind = "str" /\ color.code = ""
  THEN Raise("IndexError")              \* color[0] of the empty string
  ELSE IF color.kind = "str"
  THEN Raise("TypeError")               \* "%d;%d;%d" % a string
  ELSE IF color.rgb = << >>
  THEN Raise("IndexError")              \* color[0] of the empty tuple
  ELSE IF color.rgb[1].isfloat
  THEN FmtRgb([i \in 1..Len(color.rgb) |-> Times255(color.rgb[i])], bg)
  ELSE FmtRgb(color.rgb, bg)

Flag(on, code) == IF on THEN code \o <<";">> ELSE << >>

\* the end of Texel.render, from ansi = ansi[:-1] on
RenderTail(t, ansi) ==
  Ok(SubSeq(ansi, 1, Len(ansi) - 1) \o <<"m">>
     \o (IF t.character # "" THEN <<t.character>> ELSE <<" ">>)
     \o <<"ESC", "[", "0", "m">>)

RenderCodes(t, fg, bg) ==
  IF fg.err # "none" THEN fg
  ELSE IF bg.err # "none" THEN bg
  ELSE RenderTail(t, <<"ESC", "[">> \o fg.out \o bg.out
                     \o Flag(t.bold, <<"1">>) \o Flag(t.faint, <<"2">>)
                     \o Flag(t.italic, <<"3">>) \o Flag(t.underline, <<"4">>)
                     \o Flag(t.blink, <<"5">>) \o Flag(t.inverse, <<"7">>)
                     \o Flag(t.cross, <<"9">>) \o Flag(t.overline, <<"5", "3">>))

\* Texel.render
texel_render(t) ==
  RenderCodes(t, ansi_color_code(t.fg_color, FALSE), ansi_color_code(t.bg_color, TRUE))

\* CanvasBase.render: the loop over rows and texels, from (row, col) on
RECURSIVE render_from(_, _, _, _)
RECURSIVE render_texel(_, _, _, _, _)
render_from(buf, row, col, string) ==
  IF row > Len(buf) THEN Ok(SubSeq(string, 1, Len(string) - 1))
  ELSE IF col > Len(buf[row]) THEN render_from(buf, row + 1, 1, string \o <<"\n">>)
  ELSE render_texel(buf, row, col, string, texel_render(buf[row][col]))

render_texel(buf, row, col, string, t) ==
  IF t.err # "none" THEN t ELSE render_from(buf, row, col + 1, string \o t.out)

\* a render that keeps the newline after the last row
KeepNewline(o) == IF o.err = "none" THEN Ok(o.out \o <<"\n">>) ELSE o

RenderKeepNewline(buf) == KeepNewline(render_from(buf, 1, 1, << >>))

render(buf) == render_from(buf, 1, 1, << >>)

(***************************************************************************)
(* CanvasBase, TCanvas, DotCanvas                                          *)
(***************************************************************************)
\* the transformation functions: the two lambdas of the source, and one a
\* caller registers: lambda pos: (-int(round(pos[0])) - 1, int(round(pos[1])))
FnCell(fn, rx, ry) ==
  CASE fn = "unit"   -> <<rx, ry>>
    [] fn = "dot"    -> <<rx \div 2, ry \div 4>>
    [] fn = "mirror" -> <<-rx - 1, ry>>

ApplyFn(fn, pos) == FnCell(fn, FRound(pos[1]), FRound(pos[2]))

\* transformation=None is the string "None"
Resolve(T) == IF T = "None" THEN default_transformation ELSE T

\* a lookup that falls back to "unit" for a name that was never registered
LookupOrUnit(T) ==
  IF Resolve(T) \in DOMAIN transformations
  THEN [err |-> "none", fn |-> transformations[Resolve(T)]]
  ELSE [err |-> "none", fn |-> "unit"]

\* self._transformations[transformation]: KeyError on a name that was never
\* registered
Lookup(T) ==
  IF Resolve(T) \in DOMAIN transformations
  THEN [err |-> "none", fn |-> transformations[Resolve(T)]]
  ELSE [err |-> "KeyError", fn |-> "none"]

Known(T) == Lookup(T).err = "none"

\* transform_position(pos, transformation), for a known name
transform_position(pos, T) == ApplyFn(Lookup(T).fn, pos)

\* CanvasBase.clear appends rows of fresh Texels to the buffer
clear(buf, kw) ==
  buf \o [row \in 1..rows |-> [column \in 1..columns |-> Texel(kw)]]

\* a set that moves an index outside the grid to the nearest cell
SetCellClamp(buf, cell, kw) ==
  IF columns > 0 /\ rows > 0
  THEN [buf EXCEPT ![Max(0, Min(rows - 1, cell[2])) + 1]
                    [Max(0, Min(columns - 1, cell[1])) + 1] =
          [a \in Attrs |-> IF a \in DOMAIN kw THEN kw[a] ELSE @[a]]]
  ELSE buf

\* a set that replaces the texel by a fresh Texel(**kw)
SetCellReset(buf, cell, kw) ==
  IF 0 <= cell[1] /\ cell[1] < columns /\ 0 <= cell[2] /\ cell[2] < rows
  THEN [buf EXCEPT ![cell[2] + 1][cell[1] + 1] = Texel(kw)]
  ELSE buf

\* the body of set below the transformation: the bounds check and setattr
SetCell(buf, cell, kw) ==
  IF 0 <= cell[1] /\ cell[1] < columns /\ 0 <= cell[2] /\ cell[2] < rows
  THEN [buf EXCEPT ![cell[2] + 1][cell[1] + 1] =
          [a \in Attrs |-> IF a \in DOMAIN kw THEN kw[a] ELSE @[a]]]
  ELSE buf

\* A call's outcome: the error it raised ("none" when it returned) and the
\* set calls it completed, each with its position, the transformation it
\* resolved, the cell index that gave and its keyword arguments.
Done(run) == [err |-> "none", run |-> run]
Fail(e) == [err |-> e, run |-> << >>]

\* a; b
Then(a, b) ==
  IF a.err # "none" THEN a ELSE [err |-> b.err, run |-> a.run \o b.run]

\* set(pos, transformation, **kw)
set(pos, T, kw) ==
  IF ~Known(T) THEN Fail("KeyError")
  ELSE Done(<<[pos |-> pos, tr |-> Resolve(T),
               cell |-> transform_position(pos, T), kw |-> kw]>>)

\* the buffer after the set calls of a run
RECURSIVE ApplyRun(_, _)
ApplyRun(buf, run) ==
  IF run = << >> THEN buf
  ELSE ApplyRun(SetCell(buf, run[1].cell, run[1].kw), Tail(run))

(***************************************************************************)
(* Geometry2D                                                              *)
(***************************************************************************)
\* max(Dx, Dy) of two cell indices
\* the smaller of the two differences instead of the larger
StepsMin(c0, c1) == Min(Abs(c1[1] - c0[1]), Abs(c1[2] - c0[2]))

Steps(c0, c1) == Max(Abs(c1[1] - c0[1]), Abs(c1[2] - c0[2]))

\* the loop of line: n more points, each the last one plus (dpx, dpy)
RECURSIVE Walk(_, _, _, _, _)
RECURSIVE WalkTo(_, _, _, _, _)
Walk(x, y, dpx, dpy, n) ==
  IF n = 0 THEN << >> ELSE WalkTo(FAdd(x, dpx), FAdd(y, dpy), dpx, dpy, n)

WalkTo(x, y, dpx, dpy, n) == <<<<x, y>>>> \o Walk(x, y, dpx, dpy, n - 1)

RECURSIVE SetAll(_, _, _)
SetAll(pts, T, kw) ==
  IF pts = << >> THEN Done(<< >>)
  ELSE Then(set(pts[1], T, kw), SetAll(Tail(pts), T, kw))

\* line, once steps is computed
LineSteps(pos0, pos1, T, kw, steps) ==
  IF steps = 0 THEN set(pos0, T, kw)
  ELSE SetAll(<<pos0>> \o Walk(pos0[1], pos0[2],
                               FDivInt(FSub(pos1[1], pos0[1]), steps),
                               FDivInt(FSub(pos1[2], pos0[2]), steps), steps),
              T, kw)

line(pos0, pos1, T, kw) ==
  IF ~Known(T) THEN Fail("KeyError")
  ELSE LineSteps(pos0, pos1, T, kw,
                 Steps(transform_position(pos0, T), transform_position(pos1, T)))

\* a cell index as a position
AsPos(c) == <<FFromInt(c[1]), FFromInt(c[2])>>

\* the fill loop of triangle: a line to pos2 from each of the next n points
RECURSIVE FillFan(_, _, _, _, _, _, _, _)
RECURSIVE FillFrom(_, _, _, _, _, _, _, _)
FillFan(x, y, dpx, dpy, n, pos2, T, kw) ==
  IF n = 0 THEN Done(<< >>)
  ELSE FillFrom(FAdd(x, dpx), FAdd(y, dpy), dpx, dpy, n, pos2, T, kw)

FillFrom(x, y, dpx, dpy, n, pos2, T, kw) ==
  Then(line(<<x, y>>, pos2, T, kw), FillFan(x, y, dpx, dpy, n - 1, pos2, T, kw))

\* the three lines triangle draws between the cell indices of its vertices
EdgeLines3(v0, v1, v2, kw) ==
  Then(Then(line(v0, v1, "None", kw), line(v1, v2, "None", kw)),
       line(v0, v2, "None", kw))

TriangleEdges(pos0, pos1, pos2, T, kw) ==
  EdgeLines3(AsPos(transform_position(pos0, T)), AsPos(transform_position(pos1, T)),
             AsPos(transform_position(pos2, T)), kw)

\* a triangle that never fills
TriangleFillNone(pos0, pos1, pos2, T, kw, steps) == Done(<< >>)

\* the fill of triangle, once steps is computed
TriangleFill(pos0, pos1, pos2, T, kw, steps) ==
  IF steps >= 2
  THEN FillFan(pos0[1], pos0[2],
               FDivInt(FSub(pos1[1], pos0[1]), steps),
               FDivInt(FSub(pos1[2], pos0[2]), steps),
               steps - 1, pos2, T, kw)
  ELSE Done(<< >>)

triangle(pos0, pos1, pos2, T, fill, kw) ==
  IF ~Known(T) THEN Fail("KeyError")
  ELSE Then(TriangleEdges(pos0, pos1, pos2, T, kw),
            IF fill
            THEN TriangleFill(pos0, pos1, pos2, T, kw,
                   Steps(transform_position(pos0, T), transform_position(pos1, T)))
            ELSE Done(<< >>))

\* xc = 0.0; for pos in vertices: xc += pos[i]
RECURSIVE SumCoord(_, _, _)
SumCoord(vertices, i, acc) ==
  IF vertices = << >> THEN acc
  ELSE SumCoord(Tail(vertices), i, FAdd(acc, vertices[1][i]))

\* the loops of polygon over the edges (pos0, pos1), pos0 starting at vertices[-1]
RECURSIVE FanTriangles(_, _, _, _, _)
FanTriangles(centre, pos0, rest, T, kw) ==
  IF rest = << >> THEN Done(<< >>)
  ELSE Then(triangle(centre, pos0, rest[1], T, TRUE, kw),
            FanTriangles(centre, rest[1], Tail(rest), T, kw))

RECURSIVE EdgeLines(_, _, _, _)
EdgeLines(pos0, rest, T, kw) ==
  IF rest = << >> THEN Done(<< >>)
  ELSE Then(line(pos0, rest[1], T, kw), EdgeLines(rest[1], Tail(rest), T, kw))

polygon(vertices, T, fill, kw) ==
  IF fill
  THEN IF vertices = << >> THEN Fail("ZeroDivisionError")
       ELSE FanTriangles(<<FDivInt(SumCoord(vertices, 1, FZero), Len(vertices)),
                           FDivInt(SumCoord(vertices, 2, FZero), Len(vertices))>>,
                         vertices[Len(vertices)], vertices, T, kw)
  ELSE IF vertices = << >> THEN Fail("IndexError")
       ELSE EdgeLines(vertices[Len(vertices)], vertices, T, kw)

rectangle(pos0, pos1, T, fill, kw) ==
  polygon(<< <<pos0[1], pos0[2]>>, <<pos0[1], pos1[2]>>,
             <<pos1[1], pos1[2]>>, <<pos1[1], pos0[2]>> >>, T, fill, kw)

\* the loop of TCanvas.text, at cell (x, y), over the characters left
RECURSIVE TextFrom(_, _, _, _, _)
TextFrom(x0, x, y, chars, kw) ==
  IF chars = << >> THEN Done(<< >>)
  ELSE IF chars[1] = "\n" THEN TextFrom(x0, x0, y + 1, Tail(chars), kw)
  ELSE Then(set(AsPos(<<x, y>>), "unit", ("character" :> chars[1]) @@ kw),
            TextFrom(x0, x + 1, y, Tail(chars), kw))

TextAt(c, chars, kw) == TextFrom(c[1], c[1], c[2], chars, kw)

text(pos, chars, T, kw) ==
  IF ~Known(T) THEN Fail("KeyError")
  ELSE TextAt(transform_position(pos, T), chars, kw)

(***************************************************************************)
(* Bounds and the inputs the calls are given                               *)
(***************************************************************************)
MaxDim == 2
MaxOps == 2

P(x, y) == <<FFromInt(x), FFromInt(y)>>
\* the position (hx / 2, hy / 2)
H(hx, hy) == <<FDyadic(hx, 1), FDyadic(hy, 1)>>

Names == {"unit", "dot", "user"}
TArgs == Names \cup {"None"}

NoKw == [a \in {} |-> FALSE]
KwChar == "character" :> "#"
KwBg == "bg_color" :> Sym("r")
KwBold == ("bold" :> TRUE) @@ ("fg_color" :> Sym("W"))
Kws == {KwChar, KwBg, KwBold}

SetPos == {P(0, 0), P(-1, 0), P(MaxDim, MaxDim)}

(***************************************************************************)
(* The state after construction: CanvasBase.__init__ sets the size, calls  *)
(* clear on the still empty buffer and registers "unit"; DotCanvas.__init__*)
(* then registers "dot" and makes it the default.                          *)
(***************************************************************************)
Construct(c, ncol, nrow, kw) ==
  /\ cls = c
  /\ columns = ncol
  /\ rows = nrow
  /\ buffer = [row \in 1..nrow |-> [column \in 1..ncol |-> Texel(kw)]]
  /\ transformations =
       IF c = "DotCanvas" THEN ("unit" :> "unit") @@ ("dot" :> "dot")
       ELSE ("unit" :> "unit")
  /\ default_transformation = IF c = "DotCanvas" THEN "dot" ELSE "unit"
  /\ last = [op |-> "init", pts |-> << >>, T |-> "None", fill |-> FALSE,
             kw |-> kw, chars |-> << >>, err |-> "none", run |-> << >>,
             out |-> << >>]
  /\ pre = << >>
  /\ nops = 0

Init ==
  \E c \in {"TCanvas", "DotCanvas"}, ncol \in {0, MaxDim}, nrow \in {0, MaxDim} :
    Construct(c, ncol, nrow, NoKw)

(***************************************************************************)
(* The calls                                                               *)
(***************************************************************************)
Call(op, pts, T, fill, kw, chars, err, run, out) ==
  [op |-> op, pts |-> pts, T |-> T, fill |-> fill, kw |-> kw, chars |-> chars,
   err |-> err, run |-> run, out |-> out]

\* a drawing call with outcome o: its set calls write the buffer in order
Draw(op, pts, T, fill, kw, chars, o) ==
  /\ nops < MaxOps
  /\ pre' = buffer
  /\ buffer' = ApplyRun(buffer, o.run)
  /\ last' = Call(op, pts, T, fill, kw, chars, o.err, o.run, << >>)
  /\ nops' = nops + 1
  /\ UNCHANGED <<cls, columns, rows, transformations, default_transformation>>

CallSet(Ps, Ts, Ks) ==
  \E pos \in Ps, T \in Ts, kw \in Ks :
    Draw("set", <<pos>>, T, FALSE, kw, << >>, set(pos, T, kw))

CallLine(Ps, Qs, Ts, Ks) ==
  \E pos0 \in Ps, pos1 \in Qs, T \in Ts, kw \in Ks :
    Draw("line", <<pos0, pos1>>, T, FALSE, kw, << >>, line(pos0, pos1, T, kw))

CallTriangle(Vs, Ts, Ks) ==
  \E v \in Vs, T \in Ts, fill \in BOOLEAN, kw \in Ks :
    Draw("triangle", v, T, fill, kw, << >>, triangle(v[1], v[2], v[3], T, fill, kw))

CallPolygon(Vs, Ts, Ks) ==
  \E v \in Vs, T \in Ts, fill \in BOOLEAN, kw \in Ks :
    Draw("polygon", v, T, fill, kw, << >>, polygon(v, T, fill, kw))

CallRectangle(Ps, Qs, Ts, Ks) ==
  \E pos0 \in Ps, pos1 \in Qs, T \in Ts, fill \in BOOLEAN, kw \in Ks :
    Draw("rectangle", <<pos0, pos1>>, T, fill, kw, << >>,
         rectangle(pos0, pos1, T, fill, kw))

CallText(Ps, Cs, Ts, Ks) ==
  \E pos \in Ps, chars \in Cs, T \in Ts, kw \in Ks :
    Draw("text", <<pos>>, T, FALSE, kw, chars, text(pos, chars, T, kw))

CallClear(Ks) ==
  \E kw \in Ks :
    /\ nops < MaxOps
    /\ pre' = buffer
    /\ buffer' = clear(buffer, kw)
    /\ last' = Call("clear", << >>, "None", FALSE, kw, << >>, "none", << >>, << >>)
    /\ nops' = nops + 1
    /\ UNCHANGED <<cls, columns, rows, transformations, default_transformation>>

CallAddTransformation(Ns, Fs) ==
  \E name \in Ns, fn \in Fs :
    /\ nops < MaxOps
    /\ transformations' =
         [n \in DOMAIN transformations \cup {name} |->
            IF n = name THEN fn ELSE transformations[n]]
    /\ pre' = buffer
    /\ last' = Call("add_transformation", << >>, name, FALSE, NoKw, << >>,
                    "none", << >>, << >>)
    /\ nops' = nops + 1
    /\ UNCHANGED <<cls, columns, rows, buffer, default_transformation>>

CallSetDefault(Ns) ==
  \E name \in Ns :
    /\ nops < MaxOps
    /\ default_transformation' = name
    /\ pre' = buffer
    /\ last' = Call("default_transformation", << >>, name, FALSE, NoKw, << >>,
                    "none", << >>, << >>)
    /\ nops' = nops + 1
    /\ UNCHANGED <<cls, columns, rows, buffer, transformations>>

Rendered(o) ==
  /\ nops < MaxOps
  /\ pre' = buffer
  /\ last' = Call("render", << >>, "None", FALSE, NoKw, << >>, o.err, << >>, o.out)
  /\ nops' = nops + 1
  /\ UNCHANGED <<cls, columns, rows, buffer, transformations,
                 default_transformation>>

CallRender == Rendered(render(buffer))

Next ==
  \/ CallSet(SetPos, {"None", "unit", "user"}, Kws)
  \/ CallClear({NoKw, KwBg})
  \/ CallAddTransformation({"user"}, {"mirror"})
  \/ CallSetDefault({"unit", "user"})
  \/ CallLine({P(0, 0)}, {P(MaxDim, 1)}, {"None", "user"}, {KwChar})
  \/ CallTriangle({<<P(0, 0), P(MaxDim, 0), P(0, MaxDim)>>}, {"None", "user"}, {KwChar})
  \/ CallPolygon({<< >>, <<P(0, 0), P(1, MaxDim)>>}, {"None", "user"}, {KwChar})
  \/ CallRectangle({P(0, 0)}, {P(1, MaxDim)}, {"None", "user"}, {KwChar})
  \/ CallText({P(0, 0)}, {<<"a", "\n", "b">>}, {"None", "user"}, {NoKw})
  \/ CallRender

Spec == Init /\ [][Next]_vars

(***************************************************************************)
(* Colours: set and line calls that store well-formed and malformed        *)
(* colours, and render.                                                    *)
(***************************************************************************)
Red == Sym("r")
Unknown == Sym("z")
Rgb == Tup(<<CInt(255), CInt(0), CInt(10)>>)
\* (1.0, 0.5, 0.0)
RgbFloat == Tup(<<CFloat(1, 0), CFloat(1, 1), CFloat(0, 0)>>)
\* (1.0, 0, 255)
MixedFloatFirst == Tup(<<CFloat(1, 0), CInt(0), CInt(255)>>)
\* (0, 1.0, 0.5)
MixedIntFirst == Tup(<<CInt(0), CFloat(1, 0), CFloat(1, 1)>>)

Colors == {Red, Sym("W"), Unknown, Rgb, RgbFloat, MixedFloatFirst, MixedIntFirst}
ColorKws ==
  {("fg_color" :> c) : c \in Colors} \cup {("bg_color" :> c) : c \in Colors}

NextColor ==
  \/ CallSet({P(0, 0), P(1, 0)}, {"None"}, ColorKws)
  \/ CallLine({P(0, 0)}, {P(1, 1)}, {"None"}, {"fg_color" :> Unknown, "bg_color" :> Rgb})
  \/ CallRender

SpecColor == Init /\ [][NextColor]_vars

(***************************************************************************)
(* Shapes: one shape call on a freshly constructed canvas of 3 x 3 or      *)
(* GeomDim x GeomDim cells, then render.                                   *)
(***************************************************************************)
GeomDim == 6

InitGeom ==
  \E c \in {"TCanvas", "DotCanvas"}, n \in {3, GeomDim} : Construct(c, n, n, NoKw)

Coords == -1..(GeomDim - 1)
\* (0, 0), (2, 1), (-1, -1), (0, 0.5), (-0.5, 0), (0.5, 1.5)
LineFrom == {P(0, 0), P(2, 1), P(-1, -1), H(0, 1), H(-1, 0), H(1, 3)}
\* the integer positions, and (3, 1.5), (2.5, 3), (1.5, 3)
LineTo == {P(x, y) : x \in Coords, y \in Coords} \cup {H(6, 3), H(5, 6), H(3, 6)}

\* the six orders of three vertices
Orders(a, b, c) ==
  {<<a, b, c>>, <<a, c, b>>, <<b, a, c>>, <<b, c, a>>, <<c, a, b>>, <<c, b, a>>}

\* right triangles with legs along the axes, from the corner (0, 0) and from
\* the opposite corner of the canvas
Legs == 2..(GeomDim - 1)
RightTriangles ==
  UNION {Orders(P(0, 0), P(a, 0), P(0, b)) \cup
         Orders(P(GeomDim - 1, GeomDim - 1), P(GeomDim - 1 - a, GeomDim - 1),
                P(GeomDim - 1, GeomDim - 1 - b)) : a \in Legs, b \in Legs}

\* (0, 0.5), (3, 1.5), (0, 3)
Triangles == RightTriangles \cup {<<H(0, 1), H(6, 3), P(0, 3)>>}

Corners == {P(0, 0), P(2, 2), P(1, GeomDim - 1)}

NextGeom ==
  \/ nops = 0 /\ CallSet(LineFrom, TArgs, {KwChar})
  \/ nops = 0 /\ CallLine(LineFrom, LineTo, {"None", "unit", "dot"}, {KwChar})
  \/ nops = 0 /\ CallTriangle(Triangles, {"None", "unit"}, {KwChar})
  \/ nops = 0 /\ CallPolygon({<<P(0, 0), P(2, 0), P(1, 2)>>}, {"None", "user"}, {KwChar})
  \/ nops = 0 /\ CallRectangle(Corners, Corners, {"None", "unit"}, {KwChar})
  \/ nops = 0 /\ CallText({P(0, 1)}, {<<"a", "b", "\n", "c">>}, {"None"}, {NoKw})
  \/ CallRender

SpecGeom == InitGeom /\ [][NextGeom]_vars

(***************************************************************************)
(* Properties                                                              *)
(***************************************************************************)
DrawOps == {"set", "line", "triangle", "polygon", "rectangle", "text"}

InGrid(cell) ==
  0 <= cell[1] /\ cell[1] < columns /\ 0 <= cell[2] /\ cell[2] < rows

\* the cell indices a run called set with, and those of them inside the grid
Cells(run) == {run[i].cell : i \in 1..Len(run)}
Written(run) == {c \in Cells(run) : InGrid(c)}

Fresh(kw) == [row \in 1..rows |-> [column \in 1..columns |-> Texel(kw)]]

\* C1: a set call with a registered transformation raises no error, and when
\* the position maps to a cell index outside [0, columns) x [0, rows) the
\* buffer is left as it was, whatever the size of the grid.
C1_Clipping ==
  (last.op = "set" /\ Known(last.T)) =>
    /\ last.err = "none"
    /\ Len(last.run) = 1
    /\ last.run[1].cell = transform_position(last.pts[1], last.T)
    /\ ~InGrid(last.run[1].cell) => buffer = pre

\* a clipped set on a grid that has cells, some of them written before
C1_ClippedOnWrittenGrid ==
  /\ last.op = "set" /\ last.err = "none"
  /\ ~InGrid(last.run[1].cell)
  /\ columns > 0 /\ rows > 0
  /\ buffer # Fresh(NoKw)

C7_UnknownTransform ==
  (last.op \in DrawOps /\ Resolve(last.T) \notin DOMAIN transformations) =>
    /\ last.err # "none"
    /\ last.run = << >>
    /\ buffer = pre

\* a shape call that fails on an unregistered default name, on a grid that
\* has been written before
C7_UnknownDefault ==
  /\ last.op \in DrawOps \ {"set"}
  /\ last.T = "None"
  /\ default_transformation \notin DOMAIN transformations
  /\ last.err = "KeyError"
  /\ columns > 0 /\ rows > 0

\* C8: a drawing call stores colours as given and does not fail because
\* of them; render raises an error exactly when some cell holds a malformed
\* colour (a string that is no colour code, or a tuple mixing float and
\* integer components).
Malformed(color) ==
  \/ color.kind = "str" /\ color.code \notin DOMAIN subs
  \/ /\ color.kind = "tuple"
     /\ \E i, j \in DOMAIN color.rgb : color.rgb[i].isfloat # color.rgb[j].isfloat

HoldsMalformed(buf) ==
  \E r \in DOMAIN buf : \E c \in DOMAIN buf[r] :
    Malformed(buf[r][c].fg_color) \/ Malformed(buf[r][c].bg_color)

C8_LazyRejection ==
  /\ (last.op \in DrawOps /\ Known(last.T)) => last.err = "none"
  /\ last.op = "render" => (last.err # "none" <=> HoldsMalformed(buffer))

\* render returned a string for a buffer with a cell whose colour mixes float
\* and integer components
C8_MixedRendered ==
  /\ last.op = "render" /\ last.err = "none"
  /\ \E r \in DOMAIN buffer : \E c \in DOMAIN buffer[r] :
       buffer[r][c].fg_color \in {MixedFloatFirst, MixedIntFirst}

\* twice the value of a position's coordinate that is a multiple of 1/2
Twice(f) ==
  IF f.m = << >> THEN 0
  ELSE (IF f.s = 1 THEN -1 ELSE 1) * BToNat(BShr(f.m, -(f.e + 1)))

IsIntPos(pos) == Twice(pos[1]) % 2 = 0 /\ Twice(pos[2]) % 2 = 0

\* n / d (d > 0) rounded to the nearest integer, ties to the even one
RoundQ(n, d) ==
  IF 2 * (n % d) < d THEN n \div d
  ELSE IF 2 * (n % d) > d THEN (n \div d) + 1
  ELSE IF (n \div d) % 2 = 0 THEN n \div d ELSE (n \div d) + 1

\* the cell of the point i / n of the way from pos0 to pos1, in exact arithmetic
CellAt(fn, pos0, pos1, i, n) ==
  FnCell(fn,
         RoundQ(n * Twice(pos0[1]) + i * (Twice(pos1[1]) - Twice(pos0[1])), 2 * n),
         RoundQ(n * Twice(pos0[2]) + i * (Twice(pos1[2]) - Twice(pos0[2])), 2 * n))

LineIs(fn, pos0, pos1, run, n) ==
  /\ Len(run) = n + 1
  /\ run[1].pos = pos0
  /\ \A i \in 0..n : run[i + 1].cell = CellAt(fn, pos0, pos1, i, Max(n, 1))

\* C4: line(pos0, pos1) calls set steps + 1 times (once, at pos0, when steps
\* is 0), where steps is the larger difference of the cell indices of the two
\* ends; the first call is at pos0 and the i-th is on the cell of the position
\* pos0 + i * (pos1 - pos0) / steps, transformed on its own, so the last is
\* on the cell of pos1.
C4_LineInterpolates ==
  (last.op = "line" /\ last.err = "none") =>
    LineIs(Lookup(last.T).fn, last.pts[1], last.pts[2], last.run,
           Steps(transform_position(last.pts[1], last.T),
                 transform_position(last.pts[2], last.T)))

\* a line whose last set call is on another cell than the one of pos1, which
\* is inside the grid
C4_LastCellOff ==
  /\ last.op = "line" /\ last.err = "none"
  /\ InGrid(transform_position(last.pts[2], last.T))
  /\ last.run[Len(last.run)].cell # transform_position(last.pts[2], last.T)

NoGaps(run) ==
  \A i \in 1..(Len(run) - 1) :
    /\ Abs(run[i + 1].cell[1] - run[i].cell[1]) <= 1
    /\ Abs(run[i + 1].cell[2] - run[i].cell[2]) <= 1

\* fractions <<numerator, denominator>> with a positive denominator
Lt(a, b) == a[1] * b[2] < b[1] * a[2]

\* the values t with lo < x + t * d < hi, as an open interval <<from, to>>
Span(x, d, lo, hi) ==
  IF d > 0 THEN << <<lo - x, d>>, <<hi - x, d>> >>
  ELSE IF d < 0 THEN << <<x - hi, -d>>, <<x - lo, -d>> >>
  ELSE IF lo < x /\ x < hi THEN << <<-1, 1>>, <<2, 1>> >>
  ELSE << <<1, 1>>, <<0, 1>> >>

Meet(a, b) ==
  /\ Lt(a[1], a[2]) /\ Lt(a[1], b[2]) /\ Lt(b[1], a[2]) /\ Lt(b[1], b[2])
  /\ Lt(a[1], <<1, 1>>) /\ Lt(b[1], <<1, 1>>)
  /\ Lt(<<0, 1>>, a[2]) /\ Lt(<<0, 1>>, b[2])

\* the segment from pos0 to pos1 has a point inside the square of the
\* positions that "unit" maps to cell: within 1/2 of it in both coordinates
Crosses(pos0, pos1, cell) ==
  Meet(Span(Twice(pos0[1]), Twice(pos1[1]) - Twice(pos0[1]),
            2 * cell[1] - 1, 2 * cell[1] + 1),
       Span(Twice(pos0[2]), Twice(pos1[2]) - Twice(pos0[2]),
            2 * cell[2] - 1, 2 * cell[2] + 1))

Around == (-2)..(GeomDim + 1)

\* C5: on "unit", a line calls set on every cell its segment passes through,
\* and no two cells set one after the other are more than one column or more
\* than one row apart.
C5_LineCoversSegment ==
  (last.op = "line" /\ last.err = "none" /\ Lookup(last.T).fn = "unit") =>
    /\ NoGaps(last.run)
    /\ \A c \in Around, r \in Around :
         Crosses(last.pts[1], last.pts[2], <<c, r>>) => <<c, r>> \in Cells(last.run)

\* C5, amended: on "unit", a line between positions with integer coordinates
\* calls set steps + 1 times, first on the cell of pos0 and last on the cell of
\* pos1, and no two cells set one after the other are more than one column or
\* more than one row apart; the line from (0, 0) to (5, 0) sets the six cells
\* (0, 0) .. (5, 0) in this order.
C5_IntegerLineNoGaps ==
  (/\ last.op = "line" /\ last.err = "none" /\ Lookup(last.T).fn = "unit"
   /\ IsIntPos(last.pts[1]) /\ IsIntPos(last.pts[2])) =>
    /\ Len(last.run) =
         1 + Max(Abs(Twice(last.pts[2][1]) - Twice(last.pts[1][1])) \div 2,
                 Abs(Twice(last.pts[2][2]) - Twice(last.pts[1][2])) \div 2)
    /\ NoGaps(last.run)
    /\ last.run[1].cell = <<Twice(last.pts[1][1]) \div 2, Twice(last.pts[1][2]) \div 2>>
    /\ last.run[Len(last.run)].cell =
         <<Twice(last.pts[2][1]) \div 2, Twice(last.pts[2][2]) \div 2>>
    /\ last.pts = <<P(0, 0), P(5, 0)>> =>
         [i \in 1..Len(last.run) |-> last.run[i].cell] = [i \in 1..6 |-> <<i - 1, 0>>]

CountChar(buf, ch) ==
  Cardinality({rc \in (DOMAIN buf) \X (1..columns) : buf[rc[1]][rc[2]].character = ch})

\* the line from (0, 0) to (5, 0) on a canvas of at least six columns: six
\* cells hold the character, those of row 0
C5_SixCellsWritten ==
  /\ last.op = "line" /\ last.err = "none" /\ Lookup(last.T).fn = "unit"
  /\ last.pts = <<P(0, 0), P(5, 0)>>
  /\ columns >= 6
  /\ CountChar(buffer, "#") = 6
  /\ \A c \in 1..6 : buffer[1][c].character = "#"

CellOf(pos) == <<Twice(pos[1]) \div 2, Twice(pos[2]) \div 2>>

\* the lengths <<along x, along y>> of the legs of three integer vertices
\* that form a right triangle with its legs along the axes
LegsOf(v) ==
  {<<Abs(CellOf(v[j])[1] - CellOf(v[i])[1]), Abs(CellOf(v[k])[2] - CellOf(v[i])[2])>> :
     <<i, j, k>> \in {ijk \in (1..3) \X (1..3) \X (1..3) :
        /\ ijk[1] # ijk[2] /\ ijk[1] # ijk[3] /\ ijk[2] # ijk[3]
        /\ CellOf(v[ijk[1]])[2] = CellOf(v[ijk[2]])[2]
        /\ CellOf(v[ijk[1]])[1] = CellOf(v[ijk[3]])[1]}}

\* a right triangle of integer vertices inside the grid, its legs along the
\* axes and at least n long, drawn with "unit" on a canvas whose default is
\* "unit"
RightTriangle(v, n) ==
  /\ \A i \in 1..3 : IsIntPos(v[i]) /\ InGrid(CellOf(v[i]))
  /\ LegsOf(v) # {}
  /\ \A l \in LegsOf(v) : l[1] >= n /\ l[2] >= n

OnUnit == default_transformation = "unit" /\ Lookup(last.T).fn = "unit"

Outline(v, T, kw) == triangle(v[1], v[2], v[3], T, FALSE, kw).run

EdgeCells(v, T, kw) ==
  Written(line(v[1], v[2], T, kw).run) \cup Written(line(v[2], v[3], T, kw).run)
  \cup Written(line(v[1], v[3], T, kw).run)

C10_EdgesAreLines ==
  (last.op = "triangle" /\ last.err = "none" /\ ~last.fill) =>
    Written(last.run) = EdgeCells(last.pts, last.T, last.kw)

\* a triangle outline on a canvas whose default is "dot" that left unwritten
\* a cell that a line between two of its vertices writes
C10_EdgeCellMissing ==
  /\ last.op = "triangle" /\ last.err = "none" /\ ~last.fill
  /\ default_transformation = "dot"
  /\ \E c \in EdgeCells(last.pts, last.T, last.kw) :
       buffer[c[2] + 1][c[1] + 1].character # "#"

\* the rendering of a default Texel with the character "#"
HashCell == <<"ESC", "[", "3", "9", ";", "4", "9", "m", "#", "ESC", "[", "0", "m">>
HashRow == HashCell \o HashCell \o HashCell
HashGrid == HashRow \o <<"\n">> \o HashRow \o <<"\n">> \o HashRow

\* the filled rectangle from (0, 0) to (2, 2) with the character "#" was
\* drawn with "unit" on a 3 x 3 canvas of default texels
RectangleDrawn ==
  /\ last.op = "rectangle" /\ last.pts = <<P(0, 0), P(2, 2)>> /\ last.fill
  /\ last.kw = KwChar
  /\ columns = 3 /\ rows = 3
  /\ OnUnit
  /\ pre = Fresh(NoKw)

====
